---- MODULE Spec2Model ----
(***************************************************************************)
(* AMX bond analyzer: the valuation pipeline (parsers, extractors, the     *)
(* Japanese-yield calculator), the two acquisition modes of BondAnalyzer   *)
(* and main's loop over the supported currencies.                          *)
(*                                                                         *)
(* Values.  A Python value read from the API's JSON is a record            *)
(*   [t, s, n, d]: t is "none", "str", "int" or "float"; s the characters  *)
(* of a string (a tuple of one-character strings); n/d the number.         *)
(* A Python float is modelled as the exact rational n/d in lowest terms    *)
(* (d > 0), so float rounding error is not modelled; round(x, 2) is        *)
(* round-half-even on the exact value.  Optional[float] is a record        *)
(* [t, n, d] with t "none" or "float".                                     *)
(***************************************************************************)
EXTENDS Integers, Sequences, FiniteSets, TLC

VARIABLES
    pc,              \* position of the running entry point
    entry,           \* "main", "analyze", "analyze_all" or "fn" (one pure call)
    now,             \* datetime.now(): [day, tod] (tod = 1: past midnight)
    send_telegram,   \* main's send_telegram argument
    fetch_all,       \* main's fetch_all argument
    bot_token,       \* TELEGRAM_BOT_TOKEN is set and non-empty
    chat_id,         \* TELEGRAM_CHAT_ID is set and non-empty
    cur_idx,         \* index into SUPPORTED_CURRENCIES of main's first loop
    all_bonds,       \* main's all_bonds: currency -> [set, bonds]
    notify_idx,      \* index into SUPPORTED_CURRENCIES of main's second loop
    attempts,        \* history: the send_message calls made, in order
    error,           \* the exception that left the entry point ("" if none)
    result,          \* what the entry point returned: [set, val]
    currency,        \* analyze's / analyze_all's currency argument
    instruments_df,  \* analyze's instruments_df after the currency filter
    market_df,       \* analyze's market_df after the currency filter
    idx,             \* rows of the driving table already iterated
    bonds,           \* analyze's local list bonds
    built,           \* history: per driving row, what became of it
    fetch_failed,    \* history: the currency-wide fetch that failed ("" if none)
    fn               \* the pure call made under SpecFn

vars == <<pc, entry, now, send_telegram, fetch_all, bot_token, chat_id, cur_idx,
          all_bonds, notify_idx, attempts, error, result, currency,
          instruments_df, market_df, idx, bonds, built, fetch_failed, fn>>

----------------------------------------------------------------------------
(* Arithmetic on exact rationals. *)

Abs(x) == IF x < 0 THEN -x ELSE x

RECURSIVE Gcd(_, _)
Gcd(a, b) == IF b = 0 THEN a ELSE Gcd(b, a % b)

Rat(n, d) ==
    LET s == IF d < 0 THEN -1 ELSE 1
        g == Gcd(Abs(n), Abs(d))
    IN  [t |-> "float", n |-> (s * n) \div g, d |-> (s * d) \div g]

RMul(x, y) == Rat(x.n * y.n, x.d * y.d)
RDiv(x, y) == Rat(x.n * y.d, x.d * y.n)
RAdd(x, y) == Rat(x.n * y.d + y.n * x.d, x.d * y.d)
RSub(x, y) == Rat(x.n * y.d - y.n * x.d, x.d * y.d)
RInt(k) == Rat(k, 1)
RLeq(x, y) == x.n * y.d <= y.n * x.d
RLess(x, y) == x.n * y.d < y.n * x.d

None == [t |-> "none", n |-> 0, d |-> 1]
IsNone(x) == x.t = "none"

----------------------------------------------------------------------------
(* Python values. *)

PyNone == [t |-> "none", s |-> <<>>, n |-> 0, d |-> 1]
PyStr(chars) == [t |-> "str", s |-> chars, n |-> 0, d |-> 1]
PyInt(k) == [t |-> "int", s |-> <<>>, n |-> k, d |-> 1]
PyFloat(n, d) == [t |-> "float", s |-> <<>>, n |-> Rat(n, d).n, d |-> Rat(n, d).d]

\* bool(value)
Truthy(v) ==
    CASE v.t = "none" -> FALSE
      [] v.t = "str" -> v.s # <<>>
      [] OTHER -> v.n # 0

Digits == {"0", "1", "2", "3", "4", "5", "6", "7", "8", "9"}
DigitVal == [c \in Digits |->
    CASE c = "0" -> 0 [] c = "1" -> 1 [] c = "2" -> 2 [] c = "3" -> 3
      [] c = "4" -> 4 [] c = "5" -> 5 [] c = "6" -> 6 [] c = "7" -> 7
      [] c = "8" -> 8 [] c = "9" -> 9]
DigitChar == [k \in 0..9 |->
    CASE k = 0 -> "0" [] k = 1 -> "1" [] k = 2 -> "2" [] k = 3 -> "3"
      [] k = 4 -> "4" [] k = 5 -> "5" [] k = 6 -> "6" [] k = 7 -> "7"
      [] k = 8 -> "8" [] k = 9 -> "9"]

AllDigits(s) == \A i \in 1..Len(s) : s[i] \in Digits

RECURSIVE DigitsVal(_)
DigitsVal(s) ==
    IF s = <<>> THEN 0
    ELSE DigitsVal(SubSeq(s, 1, Len(s) - 1)) * 10 + DigitVal[s[Len(s)]]

RECURSIVE Pow10(_)
Pow10(k) == IF k = 0 THEN 1 ELSE 10 * Pow10(k - 1)

RECURSIVE DigitsOf(_)
DigitsOf(k) ==
    IF k < 10 THEN <<DigitChar[k]>>
    ELSE Append(DigitsOf(k \div 10), DigitChar[k % 10])

\* Index of the first occurrence of c in s, 0 when there is none.
Find(s, c) ==
    IF \E i \in 1..Len(s) : s[i] = c
    THEN CHOOSE i \in 1..Len(s) : s[i] = c /\ \A j \in 1..(i - 1) : s[j] # c
    ELSE 0

\* float(text) on a string: an optional sign, digits with at most one ".",
\* at least one digit.  None stands for ValueError.  (Exponents, "inf", "nan",
\* blanks and "_" are outside the strings the model feeds it.)
ParseFloat(s) ==
    LET signed == s # <<>> /\ s[1] \in {"-", "+"}
        body == IF signed THEN SubSeq(s, 2, Len(s)) ELSE s
        dot == Find(body, ".")
        ip == IF dot = 0 THEN body ELSE SubSeq(body, 1, dot - 1)
        fp == IF dot = 0 THEN <<>> ELSE SubSeq(body, dot + 1, Len(body))
        sgn == IF signed /\ s[1] = "-" THEN -1 ELSE 1
    IN  IF AllDigits(ip) /\ AllDigits(fp) /\ Len(ip) + Len(fp) > 0
        THEN Rat(sgn * DigitsVal(ip \o fp), Pow10(Len(fp)))
        ELSE None

\* text.replace(",", ".")
ReplaceComma(s) == [i \in 1..Len(s) |-> IF s[i] = "," THEN "." ELSE s[i]]

\* The fractional digits of n/d for d a power of ten (d > 1).
FracDigits(n, d) ==
    LET ds == DigitsOf(n % d)
        width == Len(DigitsOf(d)) - 1
    IN  [i \in 1..width |-> IF i <= width - Len(ds) THEN "0" ELSE ds[i - (width - Len(ds))]]

\* str(value) for a number: "1000" for an int, "9.5" or "1000.0" for a float
\* (floats of the model have at most two decimals).
StrOfNumber(v) ==
    LET sign == IF v.n < 0 THEN <<"-">> ELSE <<>>
        a == Abs(v.n)
    IN  IF v.t = "int" THEN sign \o DigitsOf(a)
        ELSE IF v.d = 1 THEN sign \o DigitsOf(a) \o <<".", "0">>
        ELSE sign \o DigitsOf(a \div v.d) \o <<".">> \o FracDigits(a, v.d)

\* str(value)
PyStrOf(v) ==
    CASE v.t = "str" -> v.s
      [] v.t = "none" -> <<"N", "o", "n", "e">>
      [] OTHER -> StrOfNumber(v)

\* float(value): the number itself, or the parsed string; None stands for
\* ValueError / TypeError.
PyFloatOf(v) ==
    CASE v.t = "str" -> ParseFloat(v.s)
      [] v.t = "none" -> None
      [] OTHER -> Rat(v.n, v.d)

----------------------------------------------------------------------------
(* calculators.py: CouponParser *)

parse_rate(cpn_rate_str) ==
    IF ~Truthy(cpn_rate_str) \/ cpn_rate_str = PyStr(<<"N", "o", "n", "e">>)
    THEN None
    ELSE PyFloatOf(PyStr(ReplaceComma(PyStrOf(cpn_rate_str))))

(* analyzer.py: BondAnalyzer._parse_par_value *)
_parse_par_value(value) ==
    IF ~Truthy(value)
    THEN None
    ELSE PyFloatOf(PyStr(ReplaceComma(PyStrOf(value))))

(* analyzer.py: BondAnalyzer._safe_float *)
Analyzer_safe_float(value) ==
    IF value = PyNone \/ value = PyStr(<<>>) \/ value = PyStr(<<"-">>)
    THEN None
    ELSE PyFloatOf(value)

----------------------------------------------------------------------------
(* extractors.py.  A quote record is [ismap, ask, bid, avg, close]: ismap   *)
(* is isinstance(price_dict, dict); a key the dict lacks reads as PyNone,   *)
(* which is what dict.get returns for it.                                   *)

\* The truth value of an Optional[float]: None and 0.0 are falsy.
OptTruthy(x) == x.t = "float" /\ x.n # 0

Extractor_safe_float(value) ==
    IF Truthy(value) /\ value # PyStr(<<"-">>)
    THEN PyFloatOf(value)
    ELSE None

\* The mutant tries close before avg.
AskPriceExtractor_extract_swapped(price_dict) ==
    IF ~price_dict.ismap THEN None
    ELSE IF OptTruthy(Extractor_safe_float(price_dict.ask))
         THEN Extractor_safe_float(price_dict.ask)
    ELSE IF OptTruthy(Extractor_safe_float(price_dict.close))
         THEN Extractor_safe_float(price_dict.close)
    ELSE IF OptTruthy(Extractor_safe_float(price_dict.avg))
         THEN Extractor_safe_float(price_dict.avg)
    ELSE None

AskPriceExtractor_extract(price_dict) ==
    IF ~price_dict.ismap THEN None
    ELSE IF OptTruthy(Extractor_safe_float(price_dict.ask))
         THEN Extractor_safe_float(price_dict.ask)
    ELSE IF OptTruthy(Extractor_safe_float(price_dict.avg))
         THEN Extractor_safe_float(price_dict.avg)
    ELSE IF OptTruthy(Extractor_safe_float(price_dict.close))
         THEN Extractor_safe_float(price_dict.close)
    ELSE None

BidPriceExtractor_extract(price_dict) ==
    IF ~price_dict.ismap THEN None
    ELSE Extractor_safe_float(price_dict.bid)

YieldExtractor_extract(yield_dict) ==
    IF ~yield_dict.ismap THEN None
    ELSE IF OptTruthy(Extractor_safe_float(yield_dict.ask))
         THEN Extractor_safe_float(yield_dict.ask)
    ELSE IF OptTruthy(Extractor_safe_float(yield_dict.avg))
         THEN Extractor_safe_float(yield_dict.avg)
    ELSE IF OptTruthy(Extractor_safe_float(yield_dict.close))
         THEN Extractor_safe_float(yield_dict.close)
    ELSE None

----------------------------------------------------------------------------
(* calculators.py: JapaneseYieldCalculator *)

IsLeap(y) == (y % 4 = 0 /\ y % 100 # 0) \/ y % 400 = 0

DaysInMonth(y, m) ==
    CASE m \in {4, 6, 9, 11} -> 30
      [] m = 2 -> IF IsLeap(y) THEN 29 ELSE 28
      [] OTHER -> 31

\* The day number of a calendar date (days since 1970-01-01).
DaysFromCivil(y, m, d) ==
    LET yy == IF m <= 2 THEN y - 1 ELSE y
        era == yy \div 400
        yoe == yy - era * 400
        mp == IF m > 2 THEN m - 3 ELSE m + 9
        doy == (153 * mp + 2) \div 5 + d - 1
        doe == yoe * 365 + yoe \div 4 - yoe \div 100 + doy
    IN  era * 146097 + doe - 719468

\* datetime.strptime(text, "%Y-%m-%d"): [ok, day]; ok = FALSE stands for
\* ValueError (TypeError when the value is no string).
Strptime(v) ==
    LET s == v.s
        d1 == Find(s, "-")
        rest == IF d1 = 0 THEN <<>> ELSE SubSeq(s, d1 + 1, Len(s))
        d2 == Find(rest, "-")
        ys == IF d1 = 0 THEN s ELSE SubSeq(s, 1, d1 - 1)
        ms == IF d2 = 0 THEN rest ELSE SubSeq(rest, 1, d2 - 1)
        ds == IF d2 = 0 THEN <<>> ELSE SubSeq(rest, d2 + 1, Len(rest))
        shaped == /\ v.t = "str"
                  /\ d1 # 0 /\ d2 # 0
                  /\ Len(ys) = 4 /\ AllDigits(ys)
                  /\ Len(ms) \in {1, 2} /\ AllDigits(ms)
                  /\ Len(ds) \in {1, 2} /\ AllDigits(ds)
        y == DigitsVal(ys)
        m == DigitsVal(ms)
        d == DigitsVal(ds)
    IN  IF shaped /\ y >= 1 /\ m \in 1..12 /\ d >= 1 /\ d <= DaysInMonth(y, m)
        THEN [ok |-> TRUE, day |-> DaysFromCivil(y, m, d)]
        ELSE [ok |-> FALSE, day |-> 0]

\* (maturity_date - today).days: timedelta.days is the floor of the
\* difference in days; at is [day, tod], tod = 1 when the clock is past 00:00.
TimedeltaDays(maturity_day, at) == maturity_day - at.day - at.tod

_calculate_years_to_maturity(maturity_date_str, at) ==
    IF Strptime(maturity_date_str).ok
    THEN Rat(4 * TimedeltaDays(Strptime(maturity_date_str).day, at), 1461)
    ELSE None

\* The mutant forgets that the coupon rate may be missing.
_validate_inputs_nocpn(bond) ==
    /\ ~IsNone(bond.ask_price)
    /\ ~IsNone(bond.par_value)
    /\ bond.maturity_date # PyNone

_validate_inputs(bond) ==
    /\ ~IsNone(bond.ask_price)
    /\ ~IsNone(bond.cpn_rate)
    /\ ~IsNone(bond.par_value)
    /\ bond.maturity_date # PyNone

\* round(x, 2), as the exact value's nearest hundredth, ties to even.
Round2(x) ==
    LET q == (x.n * 100) \div x.d
        r == (x.n * 100) % x.d
        up == 2 * r > x.d \/ (2 * r = x.d /\ q % 2 = 1)
    IN  Rat(IF up THEN q + 1 ELSE q, 100)

\* The mutant accepts a maturity that is not in the future.
calculate_nomaturitycheck(bond, at) ==
    IF ~_validate_inputs(bond) THEN None
    ELSE LET years_to_maturity == _calculate_years_to_maturity(bond.maturity_date, at)
         IN  IF IsNone(years_to_maturity) \/ years_to_maturity.n = 0 THEN None
             ELSE LET actual_price == RMul(RDiv(bond.ask_price, RInt(100)), bond.par_value)
                      annual_coupon == RMul(RDiv(bond.cpn_rate, RInt(100)), bond.par_value)
                      annual_capital_gain ==
                          RDiv(RSub(bond.par_value, actual_price), years_to_maturity)
                  IN  IF RLess(RInt(0), actual_price)
                      THEN Round2(RMul(RDiv(RAdd(annual_coupon, annual_capital_gain),
                                            actual_price), RInt(100)))
                      ELSE None

calculate(bond, at) ==
    IF ~_validate_inputs(bond) THEN None
    ELSE LET years_to_maturity == _calculate_years_to_maturity(bond.maturity_date, at)
         IN  IF IsNone(years_to_maturity) \/ RLeq(years_to_maturity, RInt(0)) THEN None
             ELSE LET actual_price == RMul(RDiv(bond.ask_price, RInt(100)), bond.par_value)
                      annual_coupon == RMul(RDiv(bond.cpn_rate, RInt(100)), bond.par_value)
                      annual_capital_gain ==
                          RDiv(RSub(bond.par_value, actual_price), years_to_maturity)
                  IN  IF RLess(RInt(0), actual_price)
                      THEN Round2(RMul(RDiv(RAdd(annual_coupon, annual_capital_gain),
                                            actual_price), RInt(100)))
                      ELSE None

----------------------------------------------------------------------------
(* models.py: Bond *)

Bond(ticker, isin, maturity_date, short_name, ask_price, bid_price, ask_yield, cpn_rate, cpn_frequency, par_value) ==
    [ticker |-> ticker, isin |-> isin, maturity_date |-> maturity_date,
     short_name |-> short_name, ask_price |-> ask_price, bid_price |-> bid_price,
     ask_yield |-> ask_yield, cpn_rate |-> cpn_rate,
     cpn_frequency |-> cpn_frequency, par_value |-> par_value,
     japanese_yield |-> None]

\* main.py
SUPPORTED_CURRENCIES == <<"AMD", "USD", "EUR">>

----------------------------------------------------------------------------
(* Strings the inputs are drawn from. *)

S_dash == <<"-">>
S_zero == <<"0">>
S_abc == <<"a", "b", "c">>
S_9c5 == <<"9", ",", "5">>
S_98p0 == <<"9", "8", ".", "0">>
S_101p5 == <<"1", "0", "1", ".", "5">>
S_1000 == <<"1", "0", "0", "0">>
S_100 == <<"1", "0", "0">>
S_150 == <<"1", "5", "0">>
S_None == <<"N", "o", "n", "e">>
S_neg5 == <<"-", "5">>
S_thousands == <<"1", ".", "0", "0", "0", ",", "5">>
D_2026_01_01 == <<"2", "0", "2", "6", "-", "0", "1", "-", "0", "1">>
D_2025_01_02 == <<"2", "0", "2", "5", "-", "0", "1", "-", "0", "2">>
D_2025_01_01 == <<"2", "0", "2", "5", "-", "0", "1", "-", "0", "1">>
D_2024_06_30 == <<"2", "0", "2", "4", "-", "0", "6", "-", "3", "0">>
D_2025_02_30 == <<"2", "0", "2", "5", "-", "0", "2", "-", "3", "0">>
D_2026_1_1 == <<"2", "0", "2", "6", "-", "1", "-", "1">>
D_dotted == <<"0", "1", ".", "0", "1", ".", "2", "0", "2", "6">>

\* The as-of moments: 2025-01-01 at 00:00 and later that day.
Today == DaysFromCivil(2025, 1, 1)
Moments == {[day |-> Today, tod |-> 0], [day |-> Today, tod |-> 1]}

----------------------------------------------------------------------------
(* The pure functions, each applied to inputs drawn from bounded sets. *)

CalcAsk == {None, RInt(0), RInt(98), RInt(100), RInt(150), RInt(-98)}
CalcCpn == {None, RInt(0), Rat(19, 2)}
CalcPar == {None, RInt(0), RInt(1000), RInt(-1000)}
Maturities ==
    {PyNone, PyStr(<<>>), PyStr(D_2026_01_01), PyStr(D_2025_01_02),
     PyStr(D_2025_01_01), PyStr(D_2024_06_30), PyStr(D_2025_02_30),
     PyStr(D_2026_1_1), PyStr(D_dotted)}

QuoteVals ==
    {PyNone, PyStr(<<>>), PyStr(S_dash), PyStr(S_zero), PyInt(0), PyStr(S_98p0),
     PyStr(S_101p5), PyFloat(99, 1), PyStr(S_abc), PyStr(S_9c5)}

ParseInputs ==
    {PyNone, PyStr(<<>>), PyStr(S_dash), PyStr(S_abc), PyStr(S_9c5), PyStr(S_zero),
     PyInt(0), PyFloat(0, 1), PyInt(1000), PyFloat(19, 2), PyStr(S_1000),
     PyStr(S_None), PyStr(S_neg5), PyStr(S_thousands)}

NoQuote == [ismap |-> FALSE, ask |-> PyNone, bid |-> PyNone, avg |-> PyNone,
            close |-> PyNone]
NoBond == Bond("", <<>>, PyNone, "", None, None, None, None, "", None)
NoMoment == [day |-> Today, tod |-> 0]
NoCall == [op |-> "idle", bond |-> NoBond, at |-> NoMoment, quote |-> NoQuote,
           raw |-> PyNone, out |-> None]

NoAllBonds == [c \in {"AMD", "USD", "EUR"} |-> [set |-> FALSE, bonds |-> <<>>]]
NoResult == [set |-> FALSE, val |-> <<>>]

InitFn ==
    /\ pc = "fn" /\ entry = "fn" /\ now = NoMoment
    /\ send_telegram = FALSE /\ fetch_all = FALSE
    /\ bot_token = FALSE /\ chat_id = FALSE
    /\ cur_idx = 1 /\ all_bonds = NoAllBonds /\ notify_idx = 1
    /\ attempts = <<>> /\ error = "" /\ result = NoResult
    /\ currency = "" /\ instruments_df = <<>> /\ market_df = <<>>
    /\ idx = 0 /\ bonds = <<>> /\ built = <<>> /\ fetch_failed = ""
    /\ fn = NoCall

FnFrame ==
    UNCHANGED <<pc, entry, now, send_telegram, fetch_all, bot_token, chat_id,
                cur_idx, all_bonds, notify_idx, attempts, error, result,
                currency, instruments_df, market_df, idx, bonds, built,
                fetch_failed>>

CallCalculate ==
    /\ pc = "fn" /\ fn.op = "idle"
    /\ \E a \in CalcAsk, c \in CalcCpn, p \in CalcPar, m \in Maturities, at \in Moments :
         LET b == Bond("T", <<"A">>, m, "", a, None, None, c, "", p)
         IN  fn' = [NoCall EXCEPT !.op = "calculate", !.bond = b, !.at = at,
                                  !.out = calculate(b, at)]
    /\ FnFrame

CallAskPriceExtract ==
    /\ pc = "fn" /\ fn.op = "idle"
    /\ \E m \in BOOLEAN, a \in QuoteVals, v \in QuoteVals, c \in QuoteVals :
         LET q == [ismap |-> m, ask |-> a, bid |-> PyNone, avg |-> v, close |-> c]
         IN  fn' = [NoCall EXCEPT !.op = "ask", !.quote = q,
                                  !.out = AskPriceExtractor_extract(q)]
    /\ FnFrame

CallYieldExtract ==
    /\ pc = "fn" /\ fn.op = "idle"
    /\ \E m \in BOOLEAN, a \in QuoteVals, v \in QuoteVals, c \in QuoteVals :
         LET q == [ismap |-> m, ask |-> a, bid |-> PyNone, avg |-> v, close |-> c]
         IN  fn' = [NoCall EXCEPT !.op = "yield", !.quote = q,
                                  !.out = YieldExtractor_extract(q)]
    /\ FnFrame

CallBidPriceExtract ==
    /\ pc = "fn" /\ fn.op = "idle"
    /\ \E m \in BOOLEAN, b \in QuoteVals, v \in {PyNone, PyStr(S_101p5)},
          c \in {PyNone, PyFloat(99, 1)} :
         LET q == [ismap |-> m, ask |-> PyNone, bid |-> b, avg |-> v, close |-> c]
         IN  fn' = [NoCall EXCEPT !.op = "bid", !.quote = q,
                                  !.out = BidPriceExtractor_extract(q)]
    /\ FnFrame

CallParseRate ==
    /\ pc = "fn" /\ fn.op = "idle"
    /\ \E v \in ParseInputs :
         fn' = [NoCall EXCEPT !.op = "parse_rate", !.raw = v, !.out = parse_rate(v)]
    /\ FnFrame

CallParseParValue ==
    /\ pc = "fn" /\ fn.op = "idle"
    /\ \E v \in ParseInputs :
         fn' = [NoCall EXCEPT !.op = "_parse_par_value", !.raw = v,
                              !.out = _parse_par_value(v)]
    /\ FnFrame

----------------------------------------------------------------------------
(* repository.py: AMXRepository.  A response of the exchange is            *)
(* [failed, data]: failed stands for a transport error or an HTTP error     *)
(* status (requests.RequestException), data for the rows of the JSON body.  *)
(* pandas keeps the JSON values of a row as they are (strings, None).       *)

\* The mutant swallows the failure and goes on with no rows.
get_instruments_swallowed(response) == [raised |-> FALSE, df |-> response.data]

\* get_instruments / get_market_data: raise_for_status is not caught.
get_instruments(response) == [raised |-> response.failed, df |-> response.data]

get_market_data(response) == [raised |-> response.failed, df |-> response.data]

NoSnapshot ==
    [order_date |-> 0, best_ask_price |-> PyNone, best_bid_price |-> PyNone,
     best_ask_yield |-> PyNone, avg_price |-> PyNone, close_price |-> PyNone,
     avg_yield |-> PyNone, close_yield |-> PyNone]

\* The mutant lets the request's failure escape.
get_instrument_detail_uncaught(response) ==
    [raised |-> response.failed, isnone |-> FALSE, market_data |-> response.data]

\* get_instrument_detail: RequestException is caught and None returned.
get_instrument_detail(response) ==
    [raised |-> FALSE, isnone |-> response.failed,
     market_data |-> IF response.failed THEN <<>> ELSE response.data]

\* sorted(market_data, key=order_date, reverse=True)[0]: the first snapshot
\* among those of the greatest order_date (the sort is stable).
LatestSnapshot(market_data) ==
    LET i == CHOOSE i \in 1..Len(market_data) :
                 /\ \A j \in 1..Len(market_data) :
                        market_data[j].order_date <= market_data[i].order_date
                 /\ \A j \in 1..(i - 1) :
                        market_data[j].order_date < market_data[i].order_date
    IN  market_data[i]

get_latest_market_data_for_instrument(response) ==
    LET detail == get_instrument_detail(response)
    IN  IF detail.raised
        THEN [raised |-> TRUE, isnone |-> TRUE, snap |-> NoSnapshot]
        ELSE IF detail.isnone \/ detail.market_data = <<>>
        THEN [raised |-> FALSE, isnone |-> TRUE, snap |-> NoSnapshot]
        ELSE [raised |-> FALSE, isnone |-> FALSE,
              snap |-> LatestSnapshot(detail.market_data)]

----------------------------------------------------------------------------
(* analyzer.py: BondAnalyzer *)

\* The mutant keeps the rows of every currency.
QueryCurrency_unfiltered(df, cur) == df

\* df.query("currency == '<currency>'") on the instrument table.
QueryCurrency(df, cur) == SelectSeq(df, LAMBDA r : r.currency = cur)

\* df.query("cur == '<currency>'") on the market table.
QueryCur(df, cur) == SelectSeq(df, LAMBDA r : r.cur = cur)

\* set_index("isin").to_dict("index") raises ValueError unless the index is
\* unique.
IndexIsUnique(df) ==
    \A i, j \in 1..Len(df) : df[i].isin = df[j].isin => i = j

NoInstrument ==
    [isin |-> PyNone, ticker |-> "None", currency |-> "", maturity_date |-> PyNone,
     short_name_en |-> "None", cpn_rate |-> PyNone, cpn_frequency_en |-> "None",
     per_value |-> PyNone]

\* instruments_lookup.get(isin, {}): the record of an empty dict reads None
\* for every key.
LookupInstrument(df, isin) ==
    IF \E i \in 1..Len(df) : df[i].isin = isin
    THEN df[CHOOSE i \in 1..Len(df) : df[i].isin = isin]
    ELSE NoInstrument

\* bond.japanese_yield = self.yield_calculator.calculate(bond)
_attach_yield(bond, at) == [bond EXCEPT !.japanese_yield = calculate(bond, at)]

_create_bond(row, df, at) ==
    LET isin == row.isin
        instrument == LookupInstrument(df, isin)
        cpn_rate == parse_rate(instrument.cpn_rate)
        par_value == _parse_par_value(instrument.per_value)
    IN  _attach_yield(
            Bond(row.ticker,
                 IF Truthy(isin) THEN isin.s ELSE <<>>,
                 row.maturity_date,
                 row.short_name_en,
                 AskPriceExtractor_extract(row.price),
                 BidPriceExtractor_extract(row.price),
                 YieldExtractor_extract(row.yield),
                 cpn_rate,
                 instrument.cpn_frequency_en,
                 par_value), at)

\* x or y on Optional[float]
OptOr(x, y) == IF OptTruthy(x) THEN x ELSE y

_create_bond_from_instrument(instrument, latest, at) ==
    LET cpn_rate == parse_rate(instrument.cpn_rate)
        par_value == _parse_par_value(instrument.per_value)
        md == latest.snap
        ask0 == Analyzer_safe_float(md.best_ask_price)
        bid0 == Analyzer_safe_float(md.best_bid_price)
        yld0 == Analyzer_safe_float(md.best_ask_yield)
        ask_price ==
            IF latest.isnone THEN None
            ELSE IF IsNone(ask0)
                 THEN OptOr(Analyzer_safe_float(md.avg_price),
                            Analyzer_safe_float(md.close_price))
                 ELSE ask0
        bid_price == IF latest.isnone THEN None ELSE bid0
        ask_yield ==
            IF latest.isnone THEN None
            ELSE IF IsNone(yld0)
                 THEN OptOr(Analyzer_safe_float(md.avg_yield),
                            Analyzer_safe_float(md.close_yield))
                 ELSE yld0
    IN  _attach_yield(
            Bond(instrument.ticker, instrument.isin.s, instrument.maturity_date,
                 instrument.short_name_en, ask_price, bid_price, ask_yield,
                 cpn_rate, instrument.cpn_frequency_en, par_value), at)

\* key=lambda b: b.japanese_yield or 0
\* The mutant ranks a missing yield below every number.
SortKey_nonelast(b) ==
    IF IsNone(b.japanese_yield) THEN RInt(-1000000) ELSE b.japanese_yield

SortKey(b) == IF OptTruthy(b.japanese_yield) THEN b.japanese_yield ELSE RInt(0)

\* list.sort(key=..., reverse=True): stable, so equal keys keep their order.
InsertDesc(sorted, b) ==
    LET k == Cardinality({i \in 1..Len(sorted) : RLeq(SortKey(b), SortKey(sorted[i]))})
    IN  SubSeq(sorted, 1, k) \o <<b>> \o SubSeq(sorted, k + 1, Len(sorted))

RECURSIVE SortByYieldDesc(_)
SortByYieldDesc(seq) ==
    IF seq = <<>> THEN <<>>
    ELSE InsertDesc(SortByYieldDesc(SubSeq(seq, 1, Len(seq) - 1)), seq[Len(seq)])

----------------------------------------------------------------------------
(* What the exchange may answer: tables of at most MaxRows rows and         *)
(* histories of at most MaxSnapshots snapshots, over the rows below.        *)

MaxRows == 2
MaxSnapshots == 2

SeqsUpTo(S, n) == UNION {[1..k -> S] : k \in 0..n}

Quote(ask, bid, avg, close) ==
    [ismap |-> TRUE, ask |-> ask, bid |-> bid, avg |-> avg, close |-> close]

InstrumentRow(isin, cur, maturity, cpn, par) ==
    [isin |-> isin, ticker |-> "T", currency |-> cur, maturity_date |-> maturity,
     short_name_en |-> "name", cpn_rate |-> cpn, cpn_frequency_en |-> "Quarterly",
     per_value |-> par]

MarketRow(isin, cur, maturity, price, yld) ==
    [isin |-> isin, ticker |-> "T", cur |-> cur, maturity_date |-> maturity,
     short_name_en |-> "name", price |-> price, yield |-> yld]

I_A == InstrumentRow(PyStr(<<"A">>), "AMD", PyStr(D_2026_01_01), PyStr(S_9c5), PyStr(S_1000))
I_B == InstrumentRow(PyStr(<<"B">>), "AMD", PyStr(D_2026_01_01), PyStr(S_zero), PyStr(S_1000))
I_C == InstrumentRow(PyStr(<<"C">>), "AMD", PyStr(D_2024_06_30), PyStr(S_9c5), PyStr(S_1000))
I_N == InstrumentRow(PyNone, "AMD", PyStr(D_2026_01_01), PyStr(S_9c5), PyStr(S_1000))
I_E == InstrumentRow(PyStr(<<>>), "AMD", PyStr(D_2026_01_01), PyStr(S_dash), PyInt(0))
I_U == InstrumentRow(PyStr(<<"U">>), "USD", PyStr(D_2026_01_01), PyStr(S_9c5), PyStr(S_1000))
I_X == InstrumentRow(PyStr(<<"A">>), "USD", PyStr(D_2026_01_01), PyStr(S_zero), PyStr(S_100))
I_R == InstrumentRow(PyStr(<<"R">>), "EUR", PyStr(D_2026_01_01), PyStr(S_9c5), PyStr(S_1000))

Q_98 == Quote(PyStr(S_98p0), PyStr(S_98p0), PyNone, PyNone)
Q_100 == Quote(PyStr(S_dash), PyNone, PyStr(S_100), PyStr(S_98p0))
Q_150 == Quote(PyStr(S_150), PyStr(S_dash), PyNone, PyNone)
Q_none == Quote(PyStr(S_dash), PyStr(S_dash), PyStr(S_dash), PyStr(S_dash))

M_A == MarketRow(PyStr(<<"A">>), "AMD", PyStr(D_2026_01_01), Q_98, Q_none)
M_B == MarketRow(PyStr(<<"B">>), "AMD", PyStr(D_2026_01_01), Q_100, Q_98)
M_H == MarketRow(PyStr(<<"A">>), "AMD", PyStr(D_2026_01_01), Q_150, Q_none)
M_C == MarketRow(PyStr(<<"C">>), "AMD", PyStr(D_2024_06_30), Q_98, Q_none)
M_N == MarketRow(PyNone, "AMD", PyStr(D_2026_01_01), Q_98, Q_none)
M_E == MarketRow(PyStr(<<>>), "AMD", PyStr(D_2025_01_02), NoQuote, NoQuote)
M_U == MarketRow(PyStr(<<"U">>), "USD", PyStr(D_2026_01_01), Q_98, Q_none)
M_R == MarketRow(PyStr(<<"R">>), "EUR", PyStr(D_2026_01_01), Q_98, Q_none)

Snapshot(day, ask, bid, avg, close) ==
    [order_date |-> day, best_ask_price |-> ask, best_bid_price |-> bid,
     best_ask_yield |-> PyNone, avg_price |-> avg, close_price |-> close,
     avg_yield |-> avg, close_yield |-> close]

H_old == Snapshot(1, PyStr(S_150), PyStr(S_98p0), PyNone, PyNone)
H_new == Snapshot(2, PyStr(S_98p0), PyStr(S_dash), PyNone, PyNone)
H_avg == Snapshot(2, PyNone, PyNone, PyStr(S_zero), PyStr(S_100))

\* The rows served to a direct analyze / analyze_all call, and to main.
InstrumentFeed(e) ==
    IF e = "main" THEN {I_A, I_U, I_R} ELSE {I_A, I_B, I_C, I_N, I_E, I_U, I_X}
MarketFeed(e) ==
    IF e = "main" THEN {M_A, M_C, M_U, M_R} ELSE {M_A, M_B, M_H, M_C, M_N, M_E, M_U}
HistoryFeed(e) == IF e = "main" THEN {H_new} ELSE {H_old, H_new, H_avg}

Responses(rows, n) ==
    {[failed |-> TRUE, data |-> <<>>]}
        \cup {[failed |-> FALSE, data |-> t] : t \in SeqsUpTo(rows, n)}

----------------------------------------------------------------------------
(* The pure functions, continued: exhaustive mode's selection of the ask    *)
(* price and the ask yield, applied to a snapshot that holds the same three *)
(* values (ask, avg, close) for the price and for the yield.               *)

CallCreateBondFromInstrument ==
    /\ pc = "fn" /\ fn.op = "idle"
    /\ \E a \in QuoteVals, v \in QuoteVals, c \in QuoteVals :
         LET md == [NoSnapshot EXCEPT !.order_date = 1,
                                      !.best_ask_price = a, !.avg_price = v,
                                      !.close_price = c, !.best_ask_yield = a,
                                      !.avg_yield = v, !.close_yield = c]
             latest == [raised |-> FALSE, isnone |-> FALSE, snap |-> md]
         IN  fn' = [NoCall EXCEPT !.op = "_create_bond_from_instrument",
                                  !.quote = Quote(a, PyNone, v, c),
                                  !.bond = _create_bond_from_instrument(I_A, latest, NoMoment)]
    /\ FnFrame

NextFn ==
    \/ CallCalculate
    \/ CallAskPriceExtract
    \/ CallYieldExtract
    \/ CallBidPriceExtract
    \/ CallParseRate
    \/ CallParseParValue
    \/ CallCreateBondFromInstrument

SpecFn == InitFn /\ [][NextFn]_vars

----------------------------------------------------------------------------
(* The analyzer's two modes, step by step.  pc "raised" is an exception     *)
(* leaving the entry point: nothing catches it, in the analyzer or in main. *)

MainFrame ==
    UNCHANGED <<entry, now, send_telegram, fetch_all, bot_token, chat_id,
                cur_idx, all_bonds, notify_idx, attempts, fn>>

Raise(e) == pc' = "raised" /\ error' = e

\* One turn of a mode's loop, for the record: the row's isin, whether a Bond
\* was appended, how the history fetch went, the Bond, the currency field of
\* the row the Bond was built from, and the currency field of the instrument
\* whose reference data it carries ("" when the lookup found none).
BuiltRow(isin, made, fetch, bond, cur, ref) ==
    [isin |-> isin, made |-> made, fetch |-> fetch, bond |-> bond, cur |-> cur,
     ref |-> ref]

\* return bonds: to the caller of a direct call, or back into analyze_currency
\* (the analyzer's other locals end with the call; after a direct call they
\* are kept for the record).
ReturnBonds(sorted) ==
    /\ bonds' = sorted
    /\ IF entry = "main"
       THEN /\ pc' = "report"
            /\ instruments_df' = <<>> /\ market_df' = <<>> /\ idx' = 0 /\ built' = <<>>
            /\ UNCHANGED result
       ELSE /\ pc' = "returned"
            /\ result' = [set |-> TRUE, val |-> sorted]
            /\ UNCHANGED <<instruments_df, market_df, idx, built>>

\* analyze: instruments_df = self.repository.get_instruments()
Analyze_GetInstruments ==
    /\ pc = "analyze"
    /\ \E response \in Responses(InstrumentFeed(entry), MaxRows) :
         LET r == get_instruments(response)
         IN  /\ fetch_failed' = IF response.failed THEN "getInstruments" ELSE fetch_failed
             /\ IF r.raised
                THEN Raise("RequestException") /\ UNCHANGED instruments_df
                ELSE /\ instruments_df' = r.df
                     /\ pc' = "market"
                     /\ UNCHANGED error
    /\ UNCHANGED <<result, currency, market_df, idx, bonds, built>>
    /\ MainFrame

\* analyze: the market fetch, both currency filters and the instrument lookup.
\* query() on a table without rows (and so without columns) raises
\* UndefinedVariableError; to_dict("index") on a repeated isin raises ValueError.
Analyze_GetMarketData ==
    /\ pc = "market"
    /\ \E response \in Responses(MarketFeed(entry), MaxRows) :
         LET r == get_market_data(response)
             instruments == QueryCurrency(instruments_df, currency)
             market == QueryCur(r.df, currency)
         IN  /\ fetch_failed' = IF response.failed THEN "getMarketData" ELSE fetch_failed
             /\ IF r.raised
                THEN Raise("RequestException") /\ UNCHANGED <<instruments_df, market_df>>
                ELSE IF instruments_df = <<>> \/ r.df = <<>>
                THEN Raise("UndefinedVariableError") /\ UNCHANGED <<instruments_df, market_df>>
                ELSE IF ~IndexIsUnique(instruments)
                THEN Raise("ValueError") /\ UNCHANGED <<instruments_df, market_df>>
                ELSE /\ instruments_df' = instruments
                     /\ market_df' = market
                     /\ pc' = IF market = <<>> THEN "sort" ELSE "rows"
                     /\ UNCHANGED error
    /\ UNCHANGED <<result, currency, idx, bonds, built>>
    /\ MainFrame

\* analyze: one turn of the loop over market_df; a Bond is always truthy, so
\* every row's bond is appended.
Analyze_CreateBond ==
    /\ pc = "rows"
    /\ LET row == market_df[idx + 1]
           bond == _create_bond(row, instruments_df, now)
       IN  /\ bonds' = Append(bonds, bond)
           /\ built' = Append(built, BuiltRow(row.isin, TRUE, "none", bond, row.cur,
                                   LookupInstrument(instruments_df, row.isin).currency))
    /\ idx' = idx + 1
    /\ pc' = IF idx + 1 = Len(market_df) THEN "sort" ELSE "rows"
    /\ UNCHANGED <<error, result, currency, instruments_df, market_df, fetch_failed>>
    /\ MainFrame

\* analyze: bonds.sort(...); return bonds
Analyze_Sort ==
    /\ pc = "sort"
    /\ ReturnBonds(SortByYieldDesc(bonds))
    /\ UNCHANGED <<error, currency, fetch_failed>>
    /\ MainFrame

\* analyze_all: the instrument fetch and the currency filter.
AnalyzeAll_GetInstruments ==
    /\ pc = "analyze_all"
    /\ \E response \in Responses(InstrumentFeed(entry), MaxRows) :
         LET r == get_instruments(response)
             instruments == QueryCurrency(r.df, currency)
         IN  /\ fetch_failed' = IF response.failed THEN "getInstruments" ELSE fetch_failed
             /\ IF r.raised
                THEN Raise("RequestException") /\ UNCHANGED instruments_df
                ELSE IF r.df = <<>>
                THEN Raise("UndefinedVariableError") /\ UNCHANGED instruments_df
                ELSE /\ instruments_df' = instruments
                     /\ pc' = IF instruments = <<>> THEN "sort_all" ELSE "instruments"
                     /\ UNCHANGED error
    /\ UNCHANGED <<result, currency, market_df, idx, bonds, built>>
    /\ MainFrame

\* analyze_all: one turn of the loop over instruments_df: skip a row without
\* isin, else fetch the instrument's history and build its bond.
AnalyzeAll_Instrument ==
    /\ pc = "instruments"
    /\ LET instrument == instruments_df[idx + 1]
           isin == instrument.isin
       IN  IF ~Truthy(isin)
           THEN /\ built' = Append(built, BuiltRow(isin, FALSE, "none", NoBond,
                                            instrument.currency, ""))
                /\ pc' = IF idx + 1 = Len(instruments_df) THEN "sort_all" ELSE "instruments"
                /\ UNCHANGED <<bonds, error>>
           ELSE \E response \in Responses(HistoryFeed(entry), MaxSnapshots) :
                  LET latest_data == get_latest_market_data_for_instrument(response)
                      bond == _create_bond_from_instrument(instrument, latest_data, now)
                      fetch == IF response.failed THEN "failed"
                               ELSE IF response.data = <<>> THEN "empty" ELSE "ok"
                  IN  IF latest_data.raised
                      THEN Raise("RequestException") /\ UNCHANGED <<bonds, built>>
                      ELSE /\ bonds' = Append(bonds, bond)
                           /\ built' = Append(built, BuiltRow(isin, TRUE, fetch, bond,
                                  instrument.currency, instrument.currency))
                           /\ pc' = IF idx + 1 = Len(instruments_df)
                                    THEN "sort_all" ELSE "instruments"
                           /\ UNCHANGED error
    /\ idx' = idx + 1
    /\ UNCHANGED <<result, currency, instruments_df, market_df, fetch_failed>>
    /\ MainFrame

\* analyze_all: bonds.sort(...); return bonds
AnalyzeAll_Sort ==
    /\ pc = "sort_all"
    /\ ReturnBonds(SortByYieldDesc(bonds))
    /\ UNCHANGED <<error, currency, fetch_failed>>
    /\ MainFrame

NextAnalyze ==
    \/ Analyze_GetInstruments
    \/ Analyze_GetMarketData
    \/ Analyze_CreateBond
    \/ Analyze_Sort
    \/ AnalyzeAll_GetInstruments
    \/ AnalyzeAll_Instrument
    \/ AnalyzeAll_Sort

\* A direct call analyze(currency) or analyze_all(currency).
InitAnalyze ==
    /\ entry \in {"analyze", "analyze_all"}
    /\ pc = entry
    /\ now \in Moments
    /\ currency \in {"AMD", "USD"}
    /\ send_telegram = FALSE /\ fetch_all = FALSE
    /\ bot_token = FALSE /\ chat_id = FALSE
    /\ cur_idx = 1 /\ all_bonds = NoAllBonds /\ notify_idx = 1
    /\ attempts = <<>> /\ error = "" /\ result = NoResult
    /\ instruments_df = <<>> /\ market_df = <<>>
    /\ idx = 0 /\ bonds = <<>> /\ built = <<>> /\ fetch_failed = ""
    /\ fn = NoCall

SpecAnalyze == InitAnalyze /\ [][NextAnalyze]_vars

----------------------------------------------------------------------------
(* main.py, formatters.py, notifier.py *)

\* format_for_console: pd.DataFrame([]) has no columns, so selecting the
\* display columns raises KeyError when there are no bonds.
format_for_console_raises(bs) == bs = <<>>

\* format_for_telegram(bonds, top_n=15): the parameters it accepts by keyword,
\* and the keywords of main's call format_for_telegram(bonds, currency=currency).
format_for_telegram_params == {"bonds", "top_n"}
format_for_telegram_keywords == {"currency"}

\* A keyword the function does not accept raises TypeError.
format_for_telegram_raises ==
    ~(format_for_telegram_keywords \subseteq format_for_telegram_params)

\* send_message: True for status 200; False for any other status and for a
\* RequestException, which it catches.
SendOutcomes == {"200", "non200", "RequestException"}
send_message(outcome) == outcome = "200"

\* main's first loop enters analyze_currency, which calls the analyzer.
Main_AnalyzeCurrency ==
    /\ pc = "main_loop"
    /\ currency' = SUPPORTED_CURRENCIES[cur_idx]
    /\ instruments_df' = <<>> /\ market_df' = <<>>
    /\ idx' = 0 /\ bonds' = <<>> /\ built' = <<>>
    /\ pc' = IF fetch_all THEN "analyze_all" ELSE "analyze"
    /\ UNCHANGED <<error, result, fetch_failed>>
    /\ MainFrame

\* analyze_currency after the analyzer returned: the console report and the
\* statistics; then main stores the list and moves to the next currency.
Main_Report ==
    /\ pc = "report"
    /\ IF format_for_console_raises(bonds)
       THEN Raise("KeyError") /\ UNCHANGED <<all_bonds, cur_idx, bonds>>
       ELSE /\ all_bonds' = [all_bonds EXCEPT ![currency] = [set |-> TRUE, bonds |-> bonds]]
            /\ cur_idx' = cur_idx + 1
            /\ bonds' = <<>>
            /\ pc' = IF cur_idx = Len(SUPPORTED_CURRENCIES) THEN "telegram" ELSE "main_loop"
            /\ UNCHANGED error
    /\ UNCHANGED <<entry, now, send_telegram, fetch_all, bot_token, chat_id,
                   notify_idx, attempts, fn, result, currency, instruments_df,
                   market_df, idx, built, fetch_failed>>

\* if send_telegram: ... if bot_token and chat_id: ... else: a warning.
Main_TelegramGate ==
    /\ pc = "telegram"
    /\ pc' = IF send_telegram /\ bot_token /\ chat_id THEN "notify" ELSE "return"
    /\ notify_idx' = 1
    /\ UNCHANGED <<entry, now, send_telegram, fetch_all, bot_token, chat_id,
                   cur_idx, all_bonds, attempts, fn, error, result, currency,
                   instruments_df, market_df, idx, bonds, built, fetch_failed>>

\* One turn of main's second loop: format and send the currency's report, or
\* say that there is nothing to report.
Main_Notify ==
    /\ pc = "notify"
    /\ LET c == SUPPORTED_CURRENCIES[notify_idx]
           next == IF notify_idx = Len(SUPPORTED_CURRENCIES) THEN "return" ELSE "notify"
       IN  IF all_bonds[c].bonds # <<>>
           THEN IF format_for_telegram_raises
                THEN Raise("TypeError") /\ UNCHANGED <<attempts, notify_idx>>
                ELSE \E outcome \in SendOutcomes :
                       /\ attempts' = Append(attempts,
                              [currency |-> c, sent |-> send_message(outcome)])
                       /\ notify_idx' = notify_idx + 1
                       /\ pc' = next
                       /\ UNCHANGED error
           ELSE /\ notify_idx' = notify_idx + 1
                /\ pc' = next
                /\ UNCHANGED <<attempts, error>>
    /\ UNCHANGED <<entry, now, send_telegram, fetch_all, bot_token, chat_id,
                   cur_idx, all_bonds, fn, result, currency, instruments_df,
                   market_df, idx, bonds, built, fetch_failed>>

\* return all_bonds
Main_Return ==
    /\ pc = "return"
    /\ result' = [set |-> TRUE, val |-> all_bonds]
    /\ pc' = "returned"
    /\ UNCHANGED <<entry, now, send_telegram, fetch_all, bot_token, chat_id,
                   cur_idx, all_bonds, notify_idx, attempts, fn, error, currency,
                   instruments_df, market_df, idx, bonds, built, fetch_failed>>

Next ==
    \/ Main_AnalyzeCurrency
    \/ Analyze_GetInstruments
    \/ Analyze_GetMarketData
    \/ Analyze_CreateBond
    \/ Analyze_Sort
    \/ AnalyzeAll_GetInstruments
    \/ AnalyzeAll_Instrument
    \/ AnalyzeAll_Sort
    \/ Main_Report
    \/ Main_TelegramGate
    \/ Main_Notify
    \/ Main_Return

\* main(send_telegram, fetch_all) with the two credentials set or not.
Init ==
    /\ entry = "main"
    /\ pc = "main_loop"
    /\ now = [day |-> Today, tod |-> 1]
    /\ send_telegram \in BOOLEAN /\ fetch_all \in BOOLEAN
    /\ bot_token \in BOOLEAN /\ chat_id \in BOOLEAN
    /\ cur_idx = 1 /\ all_bonds = NoAllBonds /\ notify_idx = 1
    /\ attempts = <<>> /\ error = "" /\ result = NoResult
    /\ currency = "" /\ instruments_df = <<>> /\ market_df = <<>>
    /\ idx = 0 /\ bonds = <<>> /\ built = <<>> /\ fetch_failed = ""
    /\ fn = NoCall

Spec == Init /\ [][Next]_vars

----------------------------------------------------------------------------
(* Claims about one analyze / analyze_all call (SpecAnalyze). *)

\* C1: a Bond whose japanese_yield is set has ask_price, cpn_rate and par_value
\* set and a maturity_date that parses as YYYY-MM-DD to a date at least one
\* whole day after the as-of moment (years_to_maturity > 0).
C1_YieldImpliesInputs ==
    \A i \in 1..Len(bonds) :
        ~IsNone(bonds[i].japanese_yield) =>
            /\ ~IsNone(bonds[i].ask_price)
            /\ ~IsNone(bonds[i].cpn_rate)
            /\ ~IsNone(bonds[i].par_value)
            /\ Strptime(bonds[i].maturity_date).ok
            /\ Strptime(bonds[i].maturity_date).day - now.day - now.tod > 0

C1_Witness ==
    /\ pc = "returned" /\ entry = "analyze_all"
    /\ \E i \in 1..Len(bonds) : bonds[i].japanese_yield = Rat(1174, 100)
    /\ \E i \in 1..Len(bonds) : IsNone(bonds[i].japanese_yield)

\* The Bonds constructed by the call, in construction order.
Constructed ==
    LET made == SelectSeq(built, LAMBDA e : e.made)
    IN  [i \in 1..Len(made) |-> made[i].bond]

\* The sort key the claim names: the yield, a missing yield counting as 0.
YieldOrZero(b) == IF IsNone(b.japanese_yield) THEN RInt(0) ELSE b.japanese_yield

\* C3: the returned list is a permutation of the constructed Bonds, ordered by
\* yield descending with a missing yield counting as 0, Bonds of equal key in
\* construction order; so the yields that are set never increase.
C3_SortedStablePermutation ==
    (pc = "returned" /\ entry # "main") =>
        LET c == Constructed
            r == result.val
            n == Len(c)
        IN  /\ Len(r) = n
            /\ \E p \in [1..n -> 1..n] :
                 /\ \A i, j \in 1..n : p[i] = p[j] => i = j
                 /\ \A i \in 1..n : r[i] = c[p[i]]
                 /\ \A i, j \in 1..n : i < j =>
                      /\ RLeq(YieldOrZero(r[j]), YieldOrZero(r[i]))
                      /\ YieldOrZero(r[i]) = YieldOrZero(r[j]) => p[i] < p[j]
            /\ \A i, j \in 1..n :
                 (i < j /\ ~IsNone(r[i].japanese_yield) /\ ~IsNone(r[j].japanese_yield))
                     => RLeq(r[j].japanese_yield, r[i].japanese_yield)

C3_Witness ==
    /\ pc = "returned" /\ entry = "analyze" /\ Len(result.val) = 2
    /\ IsNone(result.val[1].japanese_yield)
    /\ ~IsNone(result.val[2].japanese_yield)
    /\ result.val[2].japanese_yield.n < 0
    /\ Constructed[1] = result.val[2]

IdentifiedRows == {i \in 1..Len(instruments_df) : Truthy(instruments_df[i].isin)}

\* C5: in exhaustive mode every instrument of the currency that has an
\* identifier gets its Bond whatever its history fetch did: a failed fetch or
\* an empty history leaves ask_price, bid_price and ask_yield None, and never
\* aborts the call or drops another instrument's Bond.
C5_ExhaustiveOneBondEach ==
    entry = "analyze_all" =>
        /\ pc = "raised" => (fetch_failed = "getInstruments" \/ error = "UndefinedVariableError")
        /\ \A i \in 1..Len(built) :
             (built[i].made /\ built[i].fetch \in {"failed", "empty"}) =>
                 /\ IsNone(built[i].bond.ask_price)
                 /\ IsNone(built[i].bond.bid_price)
                 /\ IsNone(built[i].bond.ask_yield)
        /\ pc = "returned" =>
             /\ Len(built) = Len(instruments_df)
             /\ Len(result.val) = Cardinality(IdentifiedRows)
             /\ \A i \in IdentifiedRows :
                  /\ built[i].made
                  /\ built[i].bond.isin = instruments_df[i].isin.s
                  /\ \E j \in 1..Len(result.val) : result.val[j] = built[i].bond

C5_Witness ==
    /\ entry = "analyze_all" /\ pc = "returned" /\ Len(built) = 2
    /\ built[1].fetch = "failed" /\ built[2].fetch = "ok"
    /\ ~IsNone(built[2].bond.ask_price)
    /\ Len(result.val) = 2

\* C6: no Bond of the returned list has an empty identifier, in either mode,
\* while every record that has an identifier yields a Bond.
C6_NoEmptyIdentifier ==
    (pc = "returned" /\ entry # "main") =>
        /\ \A i \in 1..Len(result.val) : result.val[i].isin # <<>>
        /\ \A i \in 1..Len(built) : Truthy(built[i].isin) => built[i].made

\* C9: no two Bonds of the returned list share an identifier, and repeated
\* identifiers in the input do not make the call fail.
C9_UniqueIdentifiers ==
    /\ error # "ValueError"
    /\ (pc = "returned" /\ entry # "main") =>
         \A i, j \in 1..Len(result.val) :
             result.val[i].isin = result.val[j].isin => i = j

\* C11: every Bond of a call for currency C was built from a record whose
\* currency field is exactly C (the market row's cur in same-day mode, the
\* instrument row's currency in exhaustive mode), and the reference data it
\* carries (coupon rate, frequency, par value) comes from an instrument whose
\* currency is exactly C, or from no instrument at all; every returned Bond is
\* one of those.
C11_CurrencyFilter ==
    entry # "main" =>
        /\ \A i \in 1..Len(built) :
             built[i].made =>
                 /\ built[i].cur = currency
                 /\ built[i].ref \in {currency, ""}
                 /\ built[i].ref = "" =>
                      /\ IsNone(built[i].bond.cpn_rate)
                      /\ IsNone(built[i].bond.par_value)
                      /\ built[i].bond.cpn_frequency = "None"
        /\ pc = "returned" =>
             \A j \in 1..Len(result.val) :
                 \E i \in 1..Len(built) : built[i].made /\ built[i].bond = result.val[j]

\* A same-day call for USD returning one Bond joined to its USD instrument.
C11_Witness ==
    /\ entry = "analyze" /\ pc = "returned" /\ currency = "USD"
    /\ Len(result.val) = 1
    /\ built[1].cur = "USD" /\ built[1].ref = "USD"
    /\ ~IsNone(built[1].bond.cpn_rate)
    /\ Len(instruments_df) = 1

----------------------------------------------------------------------------
(* Claims about main (Spec). *)

Credentials == bot_token /\ chat_id

\* C7: once the instrument fetch or the market fetch of a currency has failed,
\* main has stopped with that error: no list was stored for that currency or a
\* later one, nothing was sent, nothing was returned.
C7_FetchFailureAborts ==
    fetch_failed # "" =>
        /\ pc = "raised" /\ error = "RequestException"
        /\ currency = SUPPORTED_CURRENCIES[cur_idx]
        /\ \A k \in cur_idx..Len(SUPPORTED_CURRENCIES) :
               ~all_bonds[SUPPORTED_CURRENCIES[k]].set
        /\ attempts = <<>>
        /\ ~result.set

C7_Witness ==
    /\ fetch_failed = "getMarketData" /\ pc = "raised"
    /\ cur_idx = 2 /\ all_bonds["AMD"].set
    /\ send_telegram /\ Credentials

\* The currencies that have at least one Bond, in main's order.
CurrenciesWithBonds == SelectSeq(SUPPORTED_CURRENCIES, LAMBDA c : all_bonds[c].bonds # <<>>)

\* C8: with notification requested and both credentials set, once every
\* currency is analysed main does not fail: it makes one send attempt per
\* currency that has a Bond, in the order AMD, USD, EUR, whatever each
\* attempt's outcome, and returns the per-currency lists.
C8_OneAttemptPerCurrency ==
    (send_telegram /\ Credentials) =>
        /\ pc = "raised" => cur_idx <= Len(SUPPORTED_CURRENCIES)
        /\ pc = "returned" =>
             /\ result.val = all_bonds
             /\ Len(attempts) = Len(CurrenciesWithBonds)
             /\ \A i \in 1..Len(attempts) : attempts[i].currency = CurrenciesWithBonds[i]

\* C13: a currency whose analysis returned no Bond does not stop main: the
\* console report is rendered, the empty list is stored for the currency and
\* main goes on to the next currency (or to the notification); in the
\* notification loop such a currency gets no send attempt and the loop goes on.
C13_EmptyCurrencyContinues ==
    [][/\ (pc = "report" /\ bonds = <<>>) =>
            /\ pc' \in {"main_loop", "telegram"}
            /\ all_bonds'[currency] = [set |-> TRUE, bonds |-> <<>>]
       /\ (pc = "notify" /\ all_bonds[SUPPORTED_CURRENCIES[notify_idx]].bonds = <<>>) =>
            /\ pc' \in {"notify", "return"}
            /\ attempts' = attempts]_vars

----------------------------------------------------------------------------
(* Claims about the pure functions (SpecFn). *)

\* The yield formula of the specification on exact values: whole days to
\* maturity / 365.25, coupon and capital gain per year over the price paid.
SpecYield(b, days) ==
    LET years == Rat(days * 100, 36525)
        actual_price == RMul(RDiv(b.ask_price, RInt(100)), b.par_value)
        annual_coupon == RMul(RDiv(b.cpn_rate, RInt(100)), b.par_value)
        annual_capital_gain == RDiv(RSub(b.par_value, actual_price), years)
    IN  RMul(RDiv(RAdd(annual_coupon, annual_capital_gain), actual_price), RInt(100))

\* x is y rounded to two decimals: a whole number of hundredths at most half
\* a hundredth from y.
IsRound2(x, y) ==
    /\ x.t = "float" /\ 100 % x.d = 0
    /\ RLeq(RSub(x, y), Rat(1, 200)) /\ RLeq(RSub(y, x), Rat(1, 200))

ExampleBond(b) ==
    /\ b.ask_price = RInt(98) /\ b.cpn_rate = Rat(19, 2) /\ b.par_value = RInt(1000)
    /\ b.maturity_date = PyStr(D_2026_01_01)

\* C2: calculate returns None exactly when an input is missing, the maturity
\* date does not parse, the whole days to maturity are <= 0 or the price paid
\* (ask_price/100)*par_value is <= 0; otherwise it returns the formula's value
\* rounded to two decimals (about 11.73 for ask 98.0, coupon 9.5, par 1000 and
\* one year to maturity).
C2_CalculateContract ==
    fn.op = "calculate" =>
        LET b == fn.bond
            missing == \/ IsNone(b.ask_price) \/ IsNone(b.cpn_rate)
                       \/ IsNone(b.par_value) \/ b.maturity_date = PyNone
            parsed == Strptime(b.maturity_date)
            days == parsed.day - fn.at.day - fn.at.tod
            none == \/ missing
                    \/ ~parsed.ok
                    \/ days <= 0
                    \/ b.ask_price.n * b.par_value.n <= 0
        IN  /\ IsNone(fn.out) <=> none
            /\ ~none => IsRound2(fn.out, SpecYield(b, days))
            /\ ExampleBond(b) =>
                 /\ RLeq(Rat(1172, 100), fn.out) /\ RLeq(fn.out, Rat(1174, 100))

C2_Witness ==
    /\ fn.op = "calculate" /\ ExampleBond(fn.bond) /\ fn.at.tod = 0
    /\ fn.out = Rat(1174, 100)

\* What float() makes of a quote field, and whether the field qualifies: it is
\* present, parses to a number, and the number is not zero.
QuoteNumber(v) == IF v.t = "str" THEN ParseFloat(v.s) ELSE IF v.t = "none" THEN None ELSE Rat(v.n, v.d)
Qualifies(v) == ~IsNone(QuoteNumber(v)) /\ QuoteNumber(v).n # 0

\* C4: the ask-price and yield extractors return the first of ask, avg, close
\* that is present and parses to a non-zero number, None when no field
\* qualifies or the record is no mapping; the bid extractor reads bid alone.
C4_ExtractFallback ==
    /\ fn.op \in {"ask", "yield"} =>
         LET q == fn.quote
         IN  fn.out = IF ~q.ismap THEN None
                      ELSE IF Qualifies(q.ask) THEN QuoteNumber(q.ask)
                      ELSE IF Qualifies(q.avg) THEN QuoteNumber(q.avg)
                      ELSE IF Qualifies(q.close) THEN QuoteNumber(q.close)
                      ELSE None
    /\ fn.op = "bid" =>
         /\ ~IsNone(fn.out) => fn.quote.ismap /\ fn.out = QuoteNumber(fn.quote.bid)
         /\ IsNone(QuoteNumber(fn.quote.bid)) => IsNone(fn.out)

C4_Witness ==
    /\ fn.op = "ask" /\ fn.quote.ismap
    /\ fn.quote.ask = PyStr(S_zero) /\ fn.quote.avg = PyStr(S_dash)
    /\ fn.quote.close = PyFloat(99, 1)
    /\ fn.out = RInt(99)

\* C10: parse_rate and _parse_par_value return None for None, "", "-" and
\* "abc", the number for "9,5", a numeric input unchanged, and 0 (not None)
\* for a zero input, the string "0" or the number 0.
C10_ParseContract ==
    fn.op \in {"parse_rate", "_parse_par_value"} =>
        /\ fn.raw \in {PyNone, PyStr(<<>>), PyStr(S_dash), PyStr(S_abc)} => IsNone(fn.out)
        /\ fn.raw = PyStr(S_9c5) => fn.out = Rat(19, 2)
        /\ fn.raw.t \in {"int", "float"} => fn.out = Rat(fn.raw.n, fn.raw.d)
        /\ fn.raw = PyStr(S_zero) => fn.out = RInt(0)

\* The values the comparison of the two modes ranges over: missing, "-", zero
\* and positive numbers.
ComparedQuoteVals ==
    {PyNone, PyStr(S_dash), PyStr(S_zero), PyInt(0), PyStr(S_98p0),
     PyStr(S_101p5), PyFloat(99, 1)}

\* C12: for a snapshot and a quote record holding the same ask, avg and close
\* values, the ask_price and ask_yield of exhaustive mode
\* (_create_bond_from_instrument) equal what AskPriceExtractor and
\* YieldExtractor return in same-day mode.
C12_ModesSelectSameQuote ==
    (/\ fn.op = "_create_bond_from_instrument"
     /\ fn.quote.ask \in ComparedQuoteVals
     /\ fn.quote.avg \in ComparedQuoteVals
     /\ fn.quote.close \in ComparedQuoteVals) =>
        /\ fn.bond.ask_price = AskPriceExtractor_extract(fn.quote)
        /\ fn.bond.ask_yield = YieldExtractor_extract(fn.quote)

====
